---- MODULE Spec2Model ----
(***************************************************************************)
(* A model of analysispyjugex.py: the Analysis object (its fields), the    *)
(* on-disk gene cache it reads and extends, and the public operations      *)
(* DifferentialAnalysis, set_candidate_genes, set_ROI_MNI152 and           *)
(* performAnova, the latter stepped through initialize, first_iteration,   *)
(* the permutation loop of fwe_correction and accumulate_result.           *)
(*                                                                         *)
(* Units.  Coordinates are integers in half voxels, so that np.rint has    *)
(* ties to round.  Volume intensities and mapthreshold are in tenths.      *)
(* Raw z-scores are integers; the gene-collapsed matrix holds exact means  *)
(* in units of 1/ZUnit.  A p-value is the pair <<count, n_rep>>.           *)
(***************************************************************************)
EXTENDS Integers, Sequences, FiniteSets, TLC

(***************************************************************************)
(* Bounds of the model.                                                    *)
(***************************************************************************)
MaxRep == 2
MaxCalls == 4
MaxRows == 3

(***************************************************************************)
(* Generic helpers on sequences.                                           *)
(***************************************************************************)
RECURSIVE Flatten(_)
Flatten(ss) == IF ss = <<>> THEN <<>> ELSE Head(ss) \o Flatten(Tail(ss))

RECURSIVE SumSeq(_)
SumSeq(s) == IF s = <<>> THEN 0 ELSE Head(s) + SumSeq(Tail(s))

RECURSIVE MaxSeq(_)
MaxSeq(s) == IF Len(s) = 1 THEN s[1]
             ELSE LET m == MaxSeq(Tail(s)) IN IF Head(s) >= m THEN Head(s) ELSE m

Range(s) == {s[i] : i \in DOMAIN s}

\* The elements of s at the positions in keep, in the order of s.
FilterIdx(s, keep) ==
    LET RECURSIVE Go(_)
        Go(i) == IF i > Len(s) THEN <<>>
                 ELSE (IF i \in keep THEN <<s[i]>> ELSE <<>>) \o Go(i + 1)
    IN Go(1)

(***************************************************************************)
(* The world outside the object: the donor cohort, the Allen Brain API     *)
(* (probes of a gene, samples and z-scores of a donor), and the ROI        *)
(* volumes a caller can pass.  Two of the six donors are kept.             *)
(***************************************************************************)
donorids == <<"15496", "14380">>
specimens == <<"H0351.1015", "H0351.1012">>

\* Translation part of each donor's alignment3d (the linear part is the identity).
Alignment3d(d) == IF d = 1 THEN <<0, 0, 0>> ELSE <<2, 0, 0>>

\* data['samples'] of donor d: the mri coordinate of each sample.
ApiSamples(d) == IF d = 1 THEN << <<2, 2, 2>>, <<4, 2, 3>> >>
                 ELSE << <<-3, 4, 4>>, <<2, 4, 4>> >>

\* Gene symbols are numbers, ordered as np.unique orders them.
ApiProbes(g) == CASE g = 1 -> <<11, 12>>
                  [] g = 2 -> <<21>>
                  [] g = 3 -> <<301, 302, 303, 304, 305, 306, 307, 308, 309, 310>>
                  [] OTHER -> <<>>

GeneOfProbe(p) == IF p < 20 THEN 1 ELSE IF p < 30 THEN 2 ELSE 3

\* data['probes'][i]['z-score'][j]: the z-score of probe p in sample s of donor d.
ApiZscore(d, s, p) == ((3 * d + 5 * s + 7 * p + (p \div 3) * s) % 7) - 3


(***************************************************************************)
(* ROI volumes.  A volume has an affine (a translation, in half voxels),   *)
(* a shape and a data array; NoVoi stands for a missing ROI (None).        *)
(***************************************************************************)
NoVoi == [id |-> 0, affine |-> <<0, 0, 0>>, shape |-> <<0, 0, 0>>]

Vois == { [id |-> 1, affine |-> <<0, 0, 0>>, shape |-> <<3, 3, 3>>],
          [id |-> 2, affine |-> <<2, 0, 0>>, shape |-> <<3, 3, 3>>],
          [id |-> 3, affine |-> <<0, 0, -2>>, shape |-> <<3, 3, 3>>] }

\* img.get_data()[c[0], c[1], c[2]] for an index inside the array.
GetData(img, c) ==
    CASE img.id = 1 /\ c = <<1, 1, 1>> -> 3
      [] img.id = 1 /\ c = <<2, 1, 2>> -> 2
      [] img.id = 1 /\ c = <<2, 2, 2>> -> 5
      [] img.id = 2 /\ c = <<1, 1, 2>> -> 4
      [] img.id = 2 /\ c = <<1, 2, 2>> -> 0
      [] img.id = 3 /\ c = <<1, 1, 2>> -> 3
      [] img.id = 3 /\ c = <<2, 1, 2>> -> 1
      [] OTHER -> 1

(***************************************************************************)
(* transformSamples and the coordinate arithmetic of                       *)
(* expressionSpmCorrelation.                                               *)
(***************************************************************************)
\* inv() of a translation, and np.dot of two translations.
Inv(t) == <<0 - t[1], 0 - t[2], 0 - t[3]>>
Dot(a, b) == <<a[1] + b[1], a[2] + b[2], a[3] + b[3]>>

transformSamples(samples, T) ==
    [s \in DOMAIN samples |-> Dot(samples[s], T)]

\* np.rint on a value given in halves: to the nearest integer, ties to even.
Rint(h) == IF h % 2 = 0 THEN h \div 2
           ELSE LET lo == (h - 1) \div 2 IN IF lo % 2 = 0 THEN lo ELSE lo + 1

RintCoord(c) == <<Rint(c[1]), Rint(c[2]), Rint(c[3])>>

\* (coord > 0).sum() == 3
AllPositive(c) == c[1] > 0 /\ c[2] > 0 /\ c[3] > 0

\* Indexing dataImg at c raises IndexError (only evaluated for positive c).
OutOfBounds(img, c) == \E k \in 1..3 : c[k] >= img.shape[k]

\* The sentinel that marks a rejected coordinate.
Sentinel == <<-1, -1, -1>>

RejectedBelowOnly(img, c, threshold) ==
    \/ ~AllPositive(c)
    \/ GetData(img, c) < threshold
    \/ GetData(img, c) = 0

\* Line 257: the condition under which a rounded coordinate is replaced.
Rejected(img, c, threshold) ==
    \/ ~AllPositive(c)
    \/ GetData(img, c) <= threshold
    \/ GetData(img, c) = 0

\* Lines 252-255: the rounded voxel coordinate of every sample.
RoundedCoords(img, apidataind, specimen) ==
    LET T == Dot(Inv(img.affine), specimen.alignment3d)
        coords == transformSamples(apidataind.samples, T)
    IN [s \in DOMAIN coords |-> RintCoord(coords[s])]

\* The list comprehension of line 257 indexes the volume for every
\* all-positive coordinate; an index beyond the shape raises IndexError.
FilterRaises(img, apidataind, specimen) ==
    LET coords == RoundedCoords(img, apidataind, specimen)
    IN \E s \in DOMAIN coords : AllPositive(coords[s]) /\ OutOfBounds(img, coords[s])

expressionSpmCorrelation(img, apidataind, specimen, index, threshold) ==
    LET rounded == RoundedCoords(img, apidataind, specimen)
        coords == [s \in DOMAIN rounded |->
                     IF Rejected(img, rounded[s], threshold) THEN Sentinel
                     ELSE rounded[s]]
        keep == {s \in DOMAIN coords : AllPositive(coords[s])}
    IN [name |-> IF index = 0 THEN "img1" ELSE "img2",
        coords |-> FilterIdx(coords, keep),
        zscores |-> FilterIdx(apidataind.zscores, keep),
        ndim |-> apidataind.ndim,
        samples |-> apidataind.samples,
        probes |-> apidataind.probes,
        specimen |-> specimen.name]

(***************************************************************************)
(* getmeanzscores: np.unique, np.in1d, scipy's winsorize and np.mean.      *)
(***************************************************************************)
\* Means are kept exactly, in units of 1/ZUnit (ZUnit is a multiple of every
\* probe count the model reaches).
ZUnit == 8 * 9 * 5 * 7

RECURSIVE SortedSeqOfSet(_)
SortedSeqOfSet(S) ==
    IF S = {} THEN <<>>
    ELSE LET m == CHOOSE x \in S : \A y \in S : x <= y
         IN <<m>> \o SortedSeqOfSet(S \ {m})

RECURSIVE UniqueFirstOccurrence(_)
UniqueFirstOccurrence(gene_symbols) ==
    IF gene_symbols = <<>> THEN <<>>
    ELSE LET before == UniqueFirstOccurrence(SubSeq(gene_symbols, 1,
                                                    Len(gene_symbols) - 1))
             last == gene_symbols[Len(gene_symbols)]
         IN IF last \in Range(before) THEN before ELSE Append(before, last)

\* np.unique: the distinct values in ascending order.
Unique(gene_symbols) == SortedSeqOfSet(Range(gene_symbols))

\* np.where(np.in1d(gene_symbols, x))[0], 1-based.
IndicesOf(gene_symbols, x) ==
    FilterIdx([i \in DOMAIN gene_symbols |-> i],
              {i \in DOMAIN gene_symbols : gene_symbols[i] = x})

RECURSIVE Insert(_, _)
Insert(x, s) == IF s = <<>> THEN <<x>>
                ELSE IF x <= Head(s) THEN <<x>> \o s
                ELSE <<Head(s)>> \o Insert(x, Tail(s))

RECURSIVE SortAsc(_)
SortAsc(s) == IF s = <<>> THEN <<>> ELSE Insert(Head(s), SortAsc(Tail(s)))

\* int(0.1 * n), the number of values clamped at each end (limits=0.1).
WinsorCut(n) == n \div 10

\* winsorize(a, limits=0.1), as the sorted values: the WinsorCut(n) lowest
\* are raised to the next order statistic, the WinsorCut(n) highest lowered.
Winsorize(a) ==
    LET n == Len(a)
        srt == SortAsc(a)
        lowidx == WinsorCut(n)
        upidx == n - WinsorCut(n)
    IN [i \in 1..n |-> IF i <= lowidx THEN srt[lowidx + 1]
                       ELSE IF i > upidx THEN srt[upidx]
                       ELSE srt[i]]

\* np.mean, in units of 1/ZUnit.
Mean(a) == (SumSeq(a) * ZUnit) \div Len(a)

\* A row of a one-dimensional z-score array is a scalar; indexing it, or
\* indexing a row beyond its last column, raises IndexError.
MeanRaises(gene_symbols, combined_zscores, ndims) ==
    /\ gene_symbols # <<>>
    /\ \E j \in DOMAIN combined_zscores :
          ndims[j] = 1 \/ Len(gene_symbols) > Len(combined_zscores[j])

getmeanzscores(gene_symbols, combined_zscores) ==
    LET unique_gene_symbols == Unique(gene_symbols)
        indices == [i \in DOMAIN unique_gene_symbols |->
                      IndicesOf(gene_symbols, unique_gene_symbols[i])]
    IN [uniqueId |-> unique_gene_symbols,
        combined_zscores |->
          [j \in DOMAIN combined_zscores |->
             [i \in DOMAIN unique_gene_symbols |->
                Mean(Winsorize([k \in DOMAIN indices[i] |->
                                  combined_zscores[j][indices[i][k]]]))]]]

(***************************************************************************)
(* The model fit.  ols(...).fit() and anova_lm are library code; the       *)
(* F-statistic of the Area term is a function of the expression column and *)
(* the label column, modelled by the absolute between-region contrast.  A  *)
(* design with one region empty has no Area effect: its F is NaN.          *)
(***************************************************************************)
NaN == 0 - 1

Fstat(Zscores, Area) ==
    LET za == FilterIdx(Zscores, {i \in DOMAIN Area : Area[i] = "img1"})
        zb == FilterIdx(Zscores, {i \in DOMAIN Area : Area[i] = "img2"})
        d == SumSeq(za) * Len(zb) - SumSeq(zb) * Len(za)
    IN IF za = <<>> \/ zb = <<>> THEN NaN
       ELSE IF d >= 0 THEN d ELSE 0 - d

GEStrict(a, f) == a # NaN /\ f # NaN /\ a > f

\* a >= f on floats: false when either side is NaN.
GE(a, f) == a # NaN /\ f # NaN /\ a >= f

\* ndarray.max over one row: NaN if any entry is NaN.
RowMax(row) == IF \E k \in DOMAIN row : row[k] = NaN THEN NaN ELSE MaxSeq(row)

(***************************************************************************)
(* State.  The fields of the Analysis object keep their names; cache is    *)
(* the gene cache on disk (whether the directory exists, and the probe     *)
(* list of probes.txt, which is the column order of every zscores.txt).    *)
(* pc is the position of the caller: "idle" between public calls, the      *)
(* steps of a running DifferentialAnalysis or performAnova, "exited" after *)
(* exit() and "raised" after an uncaught exception.  args holds the        *)
(* latest public call and its arguments, returned what                     *)
(* DifferentialAnalysis last returned, ran the methods the latest call has *)
(* entered, calls the                                                      *)
(* number of public calls made, and permLabels the label column each gene  *)
(* of the current repetition was fitted against.                           *)
(***************************************************************************)
VARIABLES cache, probeids, genelist, downloadgenelist, genesymbols, genecache,
          apidata, specimenFactors, main_r, mapthreshold, n_rep, result,
          anova_data, all_probe_data, geneIds, n_genes,
          F_vec_ref_anovan, F_mat_perm_anovan, F_vec_perm_anovan,
          FWE_corrected_p, rep, j, pc, args, returned, ran, calls, permLabels

diskVars == <<cache>>
geneVars == <<probeids, genelist, downloadgenelist, genesymbols, genecache, apidata>>
anovaVars == <<specimenFactors, anova_data, all_probe_data, geneIds, n_genes>>
fweVars == <<F_vec_ref_anovan, F_mat_perm_anovan, F_vec_perm_anovan,
             FWE_corrected_p, rep, j, permLabels>>
vars == <<cache, probeids, genelist, downloadgenelist, genesymbols, genecache,
          apidata, specimenFactors, main_r, mapthreshold, n_rep, result,
          anova_data, all_probe_data, geneIds, n_genes,
          F_vec_ref_anovan, F_mat_perm_anovan, F_vec_perm_anovan,
          FWE_corrected_p, rep, j, pc, args, returned, ran, calls, permLabels>>

Donors == DOMAIN donorids

\* The donor table the API returns to buildSpecimenFactors.
SpecimenFactorsFile ==
    [id |-> donorids, name |-> specimens,
     race |-> <<"White or Caucasian", "Black or African American">>,
     gender |-> <<"M", "F">>, age |-> <<24, 39>>]

\* A specimenFactors.txt that names another specimen first and lacks the
\* second specimen of the cohort.
PartialFactorsFile ==
    [id |-> <<"15697", "15496">>, name |-> <<"H0351.1016", "H0351.1015">>,
     race |-> <<"Hispanic", "White or Caucasian">>,
     gender |-> <<"M", "M">>, age |-> <<55, 24>>]

\* No specimenFactors.txt in the cache directory.
NoFactors == [exists |-> FALSE, msg |-> <<>>]

\* The cache directories a run can start from: none, or one that holds the
\* probes of genes 1 and 2 and a specimenFactors.txt.
InitialCaches ==
    { [exists |-> FALSE, probes |-> <<>>, factors |-> NoFactors],
      [exists |-> TRUE, probes |-> <<11, 12, 21>>,
       factors |-> [exists |-> TRUE, msg |-> SpecimenFactorsFile]],
      [exists |-> TRUE, probes |-> <<11, 12, 21>>,
       factors |-> [exists |-> TRUE, msg |-> PartialFactorsFile]] }

\* mapthreshold, in tenths: 0.2 (line 76), or a negative value the caller
\* has assigned to the attribute.
Thresholds == {2, -1}

\* The gene lists and ROI arguments a caller passes.
GeneLists == { <<>>, <<2, 1>>, <<3>> }
Voi(k) == CHOOSE v \in Vois : v.id = k
RoiPairs == { <<Voi(1), Voi(2)>>, <<Voi(2), Voi(1)>>, <<Voi(1), Voi(3)>>,
              <<Voi(3), Voi(2)>>, <<NoVoi, Voi(2)>>, <<Voi(1), NoVoi>> }
Indexes == {-1, 0, 1, 2}

None == [isNone |-> TRUE, dict |-> <<>>]

(***************************************************************************)
(* set_candidate_genes and what it calls.                                  *)
(***************************************************************************)
\* creategenecache: the gene symbols of probes.txt join the keys of genecache.
creategenecache(gc, c) == gc \cup {GeneOfProbe(c.probes[i]) : i \in DOMAIN c.probes}

RECURSIVE RemoveFirst(_, _)
RemoveFirst(s, x) == IF s = <<>> THEN <<>>
                     ELSE IF Head(s) = x THEN Tail(s)
                     ELSE <<Head(s)>> \o RemoveFirst(Tail(s), x)

\* Lines 379-381: every cached gene of genelist is removed once.
RECURSIVE RemoveCached(_, _)
RemoveCached(dl, ks) ==
    IF ks = {} THEN dl
    ELSE LET k == CHOOSE x \in ks : TRUE
         IN RemoveCached(RemoveFirst(dl, k), ks \ {k})

\* retrieveprobeids.  xmltodict gives a list of probes only when the reply
\* holds several: a single probe is a dict, whose keys the comprehensions
\* iterate (d['id'] then raises TypeError), and no probe is None.
RECURSIVE retrieveprobeids(_, _, _, _)
retrieveprobeids(gl, dl, pids, gsyms) ==
    IF gl = <<>> THEN [probeids |-> pids, genesymbols |-> gsyms, raised |-> FALSE]
    ELSE LET g == Head(gl)
             probe == ApiProbes(g)
         IN IF Len(probe) = 0 \/ (Len(probe) = 1 /\ g \in Range(dl))
            THEN [probeids |-> pids, genesymbols |-> gsyms, raised |-> TRUE]
            ELSE retrieveprobeids(Tail(gl), dl,
                     pids \o (IF g \in Range(dl) /\ Len(probe) > 1 THEN probe ELSE <<>>),
                     gsyms \o [d \in DOMAIN probe |-> g])

\* The z-score matrix of donor d for a probe list: rows are samples.
ZscoreMatrix(d, probes) ==
    [s \in DOMAIN ApiSamples(d) |-> [i \in DOMAIN probes |-> ApiZscore(d, s, probes[i])]]

\* queryapi: the reply for self.probeids, as a two-dimensional array.
queryapi(d, pids) ==
    [samples |-> ApiSamples(d), probes |-> pids,
     zscores |-> ZscoreMatrix(d, pids), ndim |-> 2]

\* np.loadtxt of zscores.txt: a file of one column loads as a 1-D array.
LoadedNdim(c) == IF Len(c.probes) = 1 THEN 1 ELSE 2

\* readCachedApiSpecimenData appends one entry per donor to both lists.
readCachedApiSpecimenData(ad, c) ==
    [specimenInfo |-> ad.specimenInfo \o
        [d \in Donors |-> [name |-> specimens[d], alignment3d |-> Alignment3d(d)]],
     apiinfo |-> ad.apiinfo \o
        [d \in Donors |-> [samples |-> ApiSamples(d), probes |-> c.probes,
                           zscores |-> ZscoreMatrix(d, c.probes),
                           ndim |-> LoadedNdim(c)]]]

\* The state set_candidate_genes(gl) leaves, and whether it raised.
set_candidate_genes(gl) ==
    LET keep == [genelist |-> gl, downloadgenelist |-> gl, probeids |-> probeids,
                 genesymbols |-> genesymbols, genecache |-> genecache,
                 apidata |-> apidata, cache |-> cache, raised |-> FALSE]
    IN IF ~cache.exists
       THEN LET r == retrieveprobeids(gl, gl, probeids, genesymbols)
                k1 == [keep EXCEPT !.probeids = r.probeids,
                                   !.genesymbols = r.genesymbols]
            IN IF r.raised THEN [k1 EXCEPT !.raised = TRUE]
               ELSE [k1 EXCEPT
                       !.cache = [exists |-> TRUE, probes |-> r.probeids,
                                  factors |-> NoFactors],
                       !.apidata =
                         [specimenInfo |->
                            [d \in Donors |-> [name |-> specimens[d],
                                               alignment3d |-> Alignment3d(d)]],
                          apiinfo |-> [d \in Donors |-> queryapi(d, r.probeids)]]]
       ELSE LET gc == creategenecache(genecache, cache)
                dl == RemoveCached(gl, gc \cap Range(gl))
                r == retrieveprobeids(gl, dl, probeids, genesymbols)
                k1 == [keep EXCEPT !.downloadgenelist = dl, !.genecache = gc,
                                   !.probeids = r.probeids,
                                   !.genesymbols = r.genesymbols]
            IN IF r.raised THEN [k1 EXCEPT !.raised = TRUE]
               ELSE IF dl # <<>> /\ LoadedNdim(cache) = 1
               THEN [k1 EXCEPT !.raised = TRUE]
               ELSE LET c2 == IF dl # <<>>
                              THEN [cache EXCEPT !.probes = @ \o r.probeids]
                              ELSE cache
                    IN [k1 EXCEPT !.cache = c2,
                                  !.apidata = readCachedApiSpecimenData(apidata, c2)]

(***************************************************************************)
(* set_ROI_MNI152: the loop over the loaded specimens.  A missing ROI      *)
(* raises AttributeError at img.get_data(), an out-of-bounds voxel         *)
(* IndexError; the entries appended before the failure stay in main_r.     *)
(***************************************************************************)
RECURSIVE RoiLoop(_, _, _, _, _, _)
RoiLoop(mr, ad, voi, index, threshold, i) ==
    IF i > Len(ad.specimenInfo) THEN [main_r |-> mr, raised |-> FALSE]
    ELSE IF voi = NoVoi \/ FilterRaises(voi, ad.apiinfo[i], ad.specimenInfo[i])
    THEN [main_r |-> mr, raised |-> TRUE]
    ELSE RoiLoop(Append(mr, expressionSpmCorrelation(voi, ad.apiinfo[i],
                                ad.specimenInfo[i], index, threshold)),
                 ad, voi, index, threshold, i + 1)

set_ROI_MNI152(mr, ad, voi, index, threshold) ==
    RoiLoop(mr, ad, voi, index, threshold, 1)

(***************************************************************************)
(* initialize.                                                             *)
(***************************************************************************)
\* readSpecimenFactors: a missing specimenFactors.txt is first written by
\* buildSpecimenFactors from the API's reply; the table is then the file's.
readSpecimenFactors(c) ==
    LET file == IF c.factors.exists THEN c.factors
                ELSE [exists |-> TRUE, msg |-> SpecimenFactorsFile]
    IN [cache |-> [c EXCEPT !.factors = file], specimenFactors |-> file.msg]

\* list.index: the first position of a.
IndexOf(s, a) == CHOOSE i \in DOMAIN s : s[i] = a /\ \A k \in 1..(i - 1) : s[k] # a

\* Line 404: the rows of main_r's entries, in the order of main_r.
CombinedZscores(mr) == Flatten([r \in DOMAIN mr |-> mr[r].zscores])
CombinedNdims(mr) ==
    Flatten([r \in DOMAIN mr |-> [i \in DOMAIN mr[r].zscores |-> mr[r].ndim]])

\* Lines 412-413: the field of every img1 entry, once per retained row, then
\* the same for every img2 entry.
GroupedColumn(mr, field) ==
    LET Rows(nm) == Flatten([r \in DOMAIN mr |->
                       IF mr[r].name = nm
                       THEN [i \in DOMAIN mr[r].zscores |-> mr[r][field]]
                       ELSE <<>>])
    IN Rows("img1") \o Rows("img2")

AreaColumn(mr) == GroupedColumn(mr, "name")
SpecimenColumn(mr) == GroupedColumn(mr, "specimen")

\* Lines 414-416: a found name gives the value, a missing one a one-element
\* list holding the first value.
Lookup(factors, field, Specimen) ==
    [i \in DOMAIN Specimen |->
       IF Specimen[i] \in Range(factors.name)
       THEN [list |-> FALSE, v |-> field[IndexOf(factors.name, Specimen[i])]]
       ELSE [list |-> TRUE, v |-> field[1]]]

GeneIdsFirst(gsyms, uniqueId) == [i \in DOMAIN uniqueId |-> gsyms[1]]

\* Line 410.
GeneIds(gsyms, uniqueId) ==
    [i \in DOMAIN uniqueId |->
       IF uniqueId[i] \in Range(gsyms) THEN gsyms[IndexOf(gsyms, uniqueId[i])]
       ELSE gsyms[1]]

(***************************************************************************)
(* The state after Analysis.__init__.                                      *)
(***************************************************************************)
NoArgs == [call |-> "none", genelist |-> <<>>, roi1 |-> NoVoi, roi2 |-> NoVoi,
           index |-> 0]

Init ==
    /\ cache \in InitialCaches
    /\ probeids = <<>>
    /\ genelist = <<>>
    /\ downloadgenelist = <<>>
    /\ genesymbols = <<>>
    /\ genecache = IF cache.exists THEN creategenecache({}, cache) ELSE {}
    /\ apidata = [specimenInfo |-> <<>>, apiinfo |-> <<>>]
    /\ specimenFactors = [id |-> <<>>, name |-> <<>>, race |-> <<>>,
                          gender |-> <<>>, age |-> <<>>]
    /\ main_r = <<>>
    /\ mapthreshold \in Thresholds
    /\ n_rep \in 1..MaxRep
    /\ result = None
    /\ anova_data = [Age |-> <<>>, Race |-> <<>>, Specimen |-> <<>>,
                     Area |-> <<>>, Zscores |-> <<>>]
    /\ all_probe_data = [uniqueId |-> <<>>, combined_zscores |-> <<>>]
    /\ geneIds = <<>>
    /\ n_genes = 0
    /\ F_vec_ref_anovan = <<>>
    /\ F_mat_perm_anovan = <<>>
    /\ F_vec_perm_anovan = <<>>
    /\ FWE_corrected_p = <<>>
    /\ rep = 0
    /\ j = 0
    /\ pc = "idle"
    /\ args = NoArgs
    /\ returned = None
    /\ ran = {}
    /\ calls = 0
    /\ permLabels = <<>>

(***************************************************************************)
(* Public calls.                                                           *)
(***************************************************************************)
\* The assignments of set_candidate_genes(gl) to the object and the disk.
DoSetCandidateGenes(gl, next) ==
    LET e == set_candidate_genes(gl)
    IN /\ genelist' = e.genelist
       /\ downloadgenelist' = e.downloadgenelist
       /\ probeids' = e.probeids
       /\ genesymbols' = e.genesymbols
       /\ genecache' = e.genecache
       /\ apidata' = e.apidata
       /\ cache' = e.cache
       /\ pc' = IF e.raised THEN "raised" ELSE next

\* Lines 92-98: the checks of DifferentialAnalysis and set_candidate_genes.
\* An empty gene list exits; a missing ROI is only reported.
DifferentialAnalysis(gl, roi1, roi2) ==
    /\ pc = "idle"
    /\ calls < MaxCalls
    /\ args.call \in {"none", "DifferentialAnalysis"}
    /\ calls' = calls + 1
    /\ IF gl = <<>>
       THEN /\ pc' = "exited"
            /\ ran' = {}
            /\ UNCHANGED <<diskVars, geneVars>>
       ELSE /\ DoSetCandidateGenes(gl, "roi1")
            /\ ran' = {"set_candidate_genes"}
    /\ args' = [call |-> "DifferentialAnalysis", genelist |-> gl, roi1 |-> roi1,
                roi2 |-> roi2, index |-> 0]
    /\ UNCHANGED <<anovaVars, fweVars, main_r, mapthreshold, n_rep, result, returned>>

\* Lines 99-100: the two set_ROI_MNI152 calls of DifferentialAnalysis.
SetRoi(at, voi, index, next) ==
    /\ pc = at
    /\ LET r == set_ROI_MNI152(main_r, apidata, voi, index, mapthreshold)
       IN /\ main_r' = r.main_r
          /\ pc' = IF r.raised THEN "raised" ELSE next
    /\ ran' = ran \cup {"set_ROI_MNI152"}
    /\ UNCHANGED <<diskVars, geneVars, anovaVars, fweVars, mapthreshold, n_rep,
                   result, returned, args, calls>>

SetRoi1 == SetRoi("roi1", args.roi1, 0, "roi2")
SetRoi2 == SetRoi("roi2", args.roi2, 1, "cleanup")

\* Line 101: cleanup removes the output* files of the working directory.
Cleanup ==
    /\ pc = "cleanup"
    /\ pc' = "anova"
    /\ ran' = ran \cup {"cleanup"}
    /\ UNCHANGED <<diskVars, geneVars, anovaVars, fweVars, main_r, mapthreshold,
                   n_rep, result, returned, args, calls>>

\* A direct call of set_candidate_genes.
CallSetCandidateGenes(gl) ==
    /\ pc = "idle"
    /\ calls < MaxCalls
    /\ args.call # "DifferentialAnalysis"
    /\ calls' = calls + 1
    /\ DoSetCandidateGenes(gl, "idle")
    /\ ran' = {"set_candidate_genes"}
    /\ args' = [NoArgs EXCEPT !.call = "set_candidate_genes", !.genelist = gl]
    /\ UNCHANGED <<anovaVars, fweVars, main_r, mapthreshold, n_rep, result, returned>>

\* A direct call of set_ROI_MNI152: an index other than 0 and 1 exits.
CallSetROI(voi, index) ==
    /\ pc = "idle"
    /\ calls < MaxCalls
    /\ args.call # "DifferentialAnalysis"
    /\ calls' = calls + 1
    /\ args' = [NoArgs EXCEPT !.call = "set_ROI_MNI152", !.roi1 = voi,
                              !.index = index]
    /\ IF index < 0 \/ index > 1
       THEN /\ pc' = "exited"
            /\ ran' = {}
            /\ UNCHANGED main_r
       ELSE /\ LET r == set_ROI_MNI152(main_r, apidata, voi, index, mapthreshold)
               IN /\ main_r' = r.main_r
                  /\ pc' = IF r.raised THEN "raised" ELSE "idle"
            /\ ran' = {"set_ROI_MNI152"}
    /\ UNCHANGED <<diskVars, geneVars, anovaVars, fweVars, mapthreshold, n_rep,
                   result, returned>>

\* A direct call of performAnova.
CallPerformAnova ==
    /\ pc = "idle"
    /\ calls < MaxCalls
    /\ args.call # "DifferentialAnalysis"
    /\ calls' = calls + 1
    /\ pc' = "anova"
    /\ args' = [NoArgs EXCEPT !.call = "performAnova"]
    /\ ran' = {}
    /\ UNCHANGED <<diskVars, geneVars, anovaVars, fweVars, main_r, mapthreshold,
                   n_rep, result, returned>>

(***************************************************************************)
(* performAnova: initialize, first_iteration, fwe_correction (one action   *)
(* per pass of its inner loop) and accumulate_result.                      *)
(***************************************************************************)
\* all_probe_data['combined_zscores'][:, i], with i counted from 1.
Column(m, i) == [r \in DOMAIN m |-> m[r][i]]

Zeros(n) == [i \in 1..n |-> 0]

Count(s, x) == Cardinality({i \in DOMAIN s : s[i] = x})

ShufflesWithReplacement(Area) == [DOMAIN Area -> Range(Area)]

\* np.random.permutation(Area): the rearrangements of the label column.
Shuffles(Area) ==
    {f \in [DOMAIN Area -> Range(Area)] :
        \A l \in Range(Area) : Count(f, l) = Count(Area, l)}

\* A design in which one of the two regions has no row.
Degenerate(Area) == Count(Area, "img1") = 0 \/ Count(Area, "img2") = 0

Initialize ==
    /\ pc = "anova"
    /\ Len(CombinedZscores(main_r)) <= MaxRows
    /\ ran' = ran \cup {"performAnova"}
    /\ IF ~cache.exists
       THEN \* buildSpecimenFactors cannot write into a missing directory.
            /\ pc' = "raised"
            /\ UNCHANGED <<diskVars, anovaVars>>
       ELSE
       LET combined_zscores == CombinedZscores(main_r)
           read == readSpecimenFactors(cache)
           factors == read.specimenFactors
           apd == getmeanzscores(genesymbols, combined_zscores)
           Specimen == SpecimenColumn(main_r)
       IN /\ cache' = read.cache
          /\ specimenFactors' = factors
          /\ IF MeanRaises(genesymbols, combined_zscores, CombinedNdims(main_r))
             THEN /\ pc' = "raised"
                  /\ UNCHANGED <<all_probe_data, geneIds, n_genes, anova_data>>
             ELSE /\ all_probe_data' = apd
                  /\ geneIds' = GeneIds(genesymbols, apd.uniqueId)
                  /\ IF combined_zscores = <<>>
                     THEN /\ pc' = "raised"
                          /\ UNCHANGED <<n_genes, anova_data>>
                     ELSE /\ n_genes' = Len(apd.combined_zscores[1])
                          /\ anova_data' =
                               [Area |-> AreaColumn(main_r),
                                Specimen |-> Specimen,
                                Age |-> Lookup(factors, factors.age, Specimen),
                                Race |-> Lookup(factors, factors.race, Specimen),
                                Zscores |-> anova_data.Zscores]
                          /\ pc' = "first"
    /\ UNCHANGED <<geneVars, fweVars, main_r, mapthreshold, n_rep,
                   result, returned, args, calls>>

\* first_iteration: the reference fit of every gene column.
first_iteration(m, Area, n) == [i \in 1..n |-> Fstat(Column(m, i), Area)]

FirstIteration ==
    /\ pc = "first"
    /\ F_vec_ref_anovan' =
         first_iteration(all_probe_data.combined_zscores, anova_data.Area, n_genes)
    /\ anova_data' = [anova_data EXCEPT
                        !.Zscores = Column(all_probe_data.combined_zscores, n_genes)]
    /\ pc' = "fwe"
    /\ UNCHANGED <<diskVars, geneVars, specimenFactors, all_probe_data, geneIds,
                   n_genes, F_mat_perm_anovan, F_vec_perm_anovan, FWE_corrected_p,
                   rep, j, permLabels, main_r, mapthreshold, n_rep, result,
                   returned, args, ran, calls>>

\* A design column that holds a one-element list among its values.
HasListEntry(column) == \E i \in DOMAIN column : column[i].list

FirstIterationSwallowed ==
    /\ pc = "first"
    /\ \/ Degenerate(anova_data.Area)
       \/ HasListEntry(anova_data.Age)
       \/ HasListEntry(anova_data.Race)
    /\ F_vec_ref_anovan' = Zeros(n_genes)
    /\ anova_data' = [anova_data EXCEPT
                        !.Zscores = Column(all_probe_data.combined_zscores, 1)]
    /\ pc' = IF args.call = "DifferentialAnalysis" THEN "return" ELSE "idle"
    /\ UNCHANGED <<diskVars, geneVars, specimenFactors, all_probe_data, geneIds,
                   n_genes, F_mat_perm_anovan, F_vec_perm_anovan, FWE_corrected_p,
                   rep, j, permLabels, main_r, mapthreshold, n_rep, result,
                   returned, args, ran, calls>>

\* The fit of a degenerate design, or of a design with a list among its
\* covariate values, may instead raise in the library: the first fit then
\* ends performAnova.
FirstIterationRaises ==
    /\ pc = "first"
    /\ \/ Degenerate(anova_data.Area)
       \/ HasListEntry(anova_data.Age)
       \/ HasListEntry(anova_data.Race)
    /\ F_vec_ref_anovan' = Zeros(n_genes)
    /\ anova_data' = [anova_data EXCEPT
                        !.Zscores = Column(all_probe_data.combined_zscores, 1)]
    /\ pc' = "raised"
    /\ UNCHANGED <<diskVars, geneVars, specimenFactors, all_probe_data, geneIds,
                   n_genes, F_mat_perm_anovan, F_vec_perm_anovan, FWE_corrected_p,
                   rep, j, permLabels, main_r, mapthreshold, n_rep, result,
                   returned, args, ran, calls>>

\* Lines 435-439: the allocations of fwe_correction; row 0 is F_vec_ref_anovan.
FweStart ==
    /\ pc = "fwe"
    /\ FWE_corrected_p' = Zeros(n_genes)
    /\ F_mat_perm_anovan' =
         [r \in 1..n_rep |-> IF r = 1 THEN F_vec_ref_anovan ELSE Zeros(n_genes)]
    /\ F_vec_perm_anovan' = Zeros(n_genes)
    /\ rep' = 1
    /\ j' = 0
    /\ permLabels' = <<>>
    /\ pc' = IF n_rep > 1 THEN "perm" ELSE "accumulate"
    /\ UNCHANGED <<diskVars, geneVars, anovaVars, F_vec_ref_anovan, main_r,
                   mapthreshold, n_rep, result, returned, args, ran, calls>>

WriteRowOffByOne(F_mat, r, fv) == [F_mat EXCEPT ![r] = fv]

\* Line 448: F_mat_perm_anovan[rep] = F_vec_perm_anovan (rows count from 0).
WriteRow(F_mat, r, fv) == [F_mat EXCEPT ![r + 1] = fv]

\* Lines 441-448: one pass of the inner loop (repetition rep, gene j), and,
\* after the last gene, the write of row rep.
PermStep ==
    /\ pc = "perm"
    /\ \E shuffle \in Shuffles(anova_data.Area) :
         LET Zscores == Column(all_probe_data.combined_zscores, j + 1)
             fv == [F_vec_perm_anovan EXCEPT ![j + 1] = Fstat(Zscores, shuffle)]
             last == j + 1 = n_genes
         IN /\ anova_data' = [anova_data EXCEPT !.Area = shuffle,
                                                !.Zscores = Zscores]
            /\ F_vec_perm_anovan' = fv
            /\ permLabels' = IF j = 0 THEN <<shuffle>>
                             ELSE Append(permLabels, shuffle)
            /\ F_mat_perm_anovan' =
                 IF last THEN WriteRow(F_mat_perm_anovan, rep, fv)
                 ELSE F_mat_perm_anovan
            /\ j' = IF last THEN 0 ELSE j + 1
            /\ rep' = IF last THEN rep + 1 ELSE rep
            /\ pc' = IF last /\ rep + 1 = n_rep THEN "accumulate" ELSE "perm"
    /\ UNCHANGED <<diskVars, geneVars, specimenFactors, all_probe_data, geneIds,
                   n_genes, F_vec_ref_anovan, FWE_corrected_p, main_r,
                   mapthreshold, n_rep, result, returned, args, ran, calls>>

\* Line 453: the maximum of every row of the null-distribution matrix.
RowMaxima(F_mat) == [r \in DOMAIN F_mat |-> RowMax(F_mat[r])]

\* Line 454: the corrected p-value of every gene, as <<count, n_rep>>.
CorrectedP(F_mat, F_vec_ref, n) ==
    LET ref == RowMaxima(F_mat)
    IN [g \in DOMAIN F_vec_ref |->
          <<Cardinality({a \in DOMAIN ref : GE(ref[a], F_vec_ref[g])}), n>>]

\* dict(zip(keys, values)): a repeated key keeps its last value.
DictZip(keys, values) ==
    LET n == IF Len(keys) < Len(values) THEN Len(keys) ELSE Len(values)
    IN [k \in {keys[i] : i \in 1..n} |->
          values[CHOOSE i \in 1..n : keys[i] = k /\ \A m \in (i + 1)..n : keys[m] # k]]

AccumulateResult ==
    /\ pc = "accumulate"
    /\ LET p == CorrectedP(F_mat_perm_anovan, F_vec_ref_anovan, n_rep)
       IN /\ FWE_corrected_p' = p
          /\ result' = [isNone |-> FALSE, dict |-> DictZip(geneIds, p)]
    /\ pc' = IF args.call = "DifferentialAnalysis" THEN "return" ELSE "idle"
    /\ permLabels' = <<>>
    /\ UNCHANGED <<diskVars, geneVars, anovaVars, F_vec_ref_anovan,
                   F_mat_perm_anovan, F_vec_perm_anovan, rep, j,
                   main_r, mapthreshold, n_rep, returned, args, ran, calls>>

\* Line 104: DifferentialAnalysis returns self.result.
Return ==
    /\ pc = "return"
    /\ returned' = result
    /\ pc' = "idle"
    /\ UNCHANGED <<diskVars, geneVars, anovaVars, fweVars, main_r, mapthreshold,
                   n_rep, result, args, ran, calls>>

Next ==
    \/ \E gl \in GeneLists, rois \in RoiPairs :
          DifferentialAnalysis(gl, rois[1], rois[2])
    \/ SetRoi1
    \/ SetRoi2
    \/ Cleanup
    \/ \E gl \in GeneLists \ {<<>>} : CallSetCandidateGenes(gl)
    \/ \E voi \in Vois, index \in Indexes : CallSetROI(voi, index)
    \/ CallPerformAnova
    \/ Initialize
    \/ FirstIteration
    \/ FirstIterationRaises
    \/ FweStart
    \/ PermStep
    \/ AccumulateResult
    \/ Return

Spec == Init /\ [][Next]_vars

(***************************************************************************)
(* Properties.                                                             *)
(***************************************************************************)
\* accumulate_result has run in the latest call and nothing ran after it.
Accumulated ==
    \/ pc = "return"
    \/ pc = "idle" /\ args.call = "performAnova" /\ ~result.isNone

\* Row r of the null-distribution matrix has a maximum, and it is >= f.
RowReaches(r, f) ==
    /\ f # NaN
    /\ \A k \in DOMAIN F_mat_perm_anovan[r] : F_mat_perm_anovan[r][k] # NaN
    /\ \E k \in DOMAIN F_mat_perm_anovan[r] : F_mat_perm_anovan[r][k] >= f

\* C1: once accumulate_result has run, the corrected p-value of every gene g
\* is the number of rows of the n_rep-row null-distribution matrix whose
\* maximum over all genes is >= the observed F-statistic of g, over n_rep.
C1_CorrectedP ==
    Accumulated =>
        /\ Len(FWE_corrected_p) = n_genes
        /\ \A g \in 1..n_genes :
              FWE_corrected_p[g] =
                <<Cardinality({r \in 1..n_rep : RowReaches(r, F_vec_ref_anovan[g])}),
                  n_rep>>

\* A finished run of two genes and two rows in which a permuted row's
\* maximum falls below one gene's observed F and reaches the other's.
C1_Witness ==
    /\ Accumulated
    /\ n_genes = 2
    /\ n_rep = 2
    /\ \E g, h \in 1..2 : FWE_corrected_p[g] = <<1, 2>> /\ FWE_corrected_p[h] = <<2, 2>>

\* C2: while the permutation loop runs and when fwe_correction hands over
\* to accumulate_result, the matrix has n_rep rows, row 0 is the vector
\* first_iteration computed from the unpermuted labels, the rows not yet
\* reached are untouched, and at the hand-over rows 1..n_rep-1 are written.
C2_RowZero ==
    pc \in {"perm", "accumulate"} =>
        /\ Len(F_mat_perm_anovan) = n_rep
        /\ F_mat_perm_anovan[1] = F_vec_ref_anovan
        /\ F_vec_ref_anovan =
             [g \in 1..n_genes |->
                Fstat(Column(all_probe_data.combined_zscores, g), AreaColumn(main_r))]
        /\ rep \in 1..n_rep
        /\ \A r \in (rep + 1)..n_rep : F_mat_perm_anovan[r] = Zeros(n_genes)
        /\ pc = "accumulate" => rep = n_rep

\* The hand-over after a permutation row that differs from row 0.
C2_Witness ==
    /\ pc = "accumulate"
    /\ n_rep = 2
    /\ F_mat_perm_anovan[2] # F_mat_perm_anovan[1]
    /\ F_mat_perm_anovan[2] # Zeros(n_genes)

\* Row rep-1 has just been written: permLabels holds the label column each
\* of its genes was fitted against.
RowWritten ==
    /\ pc \in {"perm", "accumulate"}
    /\ j = 0
    /\ rep > 1
    /\ Len(permLabels) = n_genes

\* C3: in every repetition the label column is shuffled once and every gene
\* of the repetition is fitted against that one shuffled column, so a row
\* of the null-distribution matrix belongs to a single label assignment.
C3_OneShufflePerRow ==
    RowWritten => \A g, h \in 1..n_genes : permLabels[g] = permLabels[h]

\* C4: through the permutation test the Specimen, Age and Race columns and
\* the gene-collapsed matrix are what initialize built from main_r, and the
\* Area column is a rearrangement of the labels initialize assigned.
C4_OnlyAreaPermuted ==
    pc \in {"perm", "accumulate"} =>
        LET Specimen == SpecimenColumn(main_r)
            Area == AreaColumn(main_r)
        IN /\ anova_data.Specimen = Specimen
           /\ anova_data.Age = Lookup(specimenFactors, specimenFactors.age, Specimen)
           /\ anova_data.Race = Lookup(specimenFactors, specimenFactors.race, Specimen)
           /\ all_probe_data.combined_zscores =
                getmeanzscores(genesymbols, CombinedZscores(main_r)).combined_zscores
           /\ Len(anova_data.Area) = Len(Area)
           /\ \A l \in {"img1", "img2"} :
                Count(anova_data.Area, l) = Count(Area, l)

\* A permutation step has rearranged the labels.
C4_Witness ==
    /\ pc = "perm"
    /\ rep = 1
    /\ j = 1
    /\ anova_data.Area # AreaColumn(main_r)

\* The three conditions under which a sample is to be retained.
Retained(voi, c) ==
    /\ c[1] > 0 /\ c[2] > 0 /\ c[3] > 0
    /\ GetData(voi, c) > mapthreshold
    /\ GetData(voi, c) # 0

\* Entry e of main_r holds, for loaded specimen i and volume voi, exactly
\* the retained samples, the coordinates and the expression rows in the
\* order of the input.
EntryMatches(e, voi, i) ==
    LET rc == RoundedCoords(voi, apidata.apiinfo[i], apidata.specimenInfo[i])
        ks == SortedSeqOfSet({s \in DOMAIN rc : Retained(voi, rc[s])})
    IN /\ e.coords = [n \in DOMAIN ks |-> rc[ks[n]]]
       /\ e.zscores = [n \in DOMAIN ks |-> apidata.apiinfo[i].zscores[ks[n]]]

\* The entries the latest completed loop of set_ROI_MNI152 appended, the
\* loop before it when before = 1.
LoopMatches(voi, before) ==
    LET K == Len(apidata.specimenInfo)
        base == Len(main_r) - (before + 1) * K
    IN /\ base >= 0
       /\ \A i \in 1..K : EntryMatches(main_r[base + i], voi, i)

\* C5: every entry set_ROI_MNI152 appends keeps a sample exactly when all
\* three axes of its rounded coordinate are greater than 0, the intensity
\* there is greater than the threshold and is not 0, and the kept
\* coordinates and expression rows are those samples in input order.
C5_RetainedIff ==
    /\ (pc = "roi2" /\ args.call = "DifferentialAnalysis") =>
           LoopMatches(args.roi1, 0)
    /\ (pc = "cleanup" /\ args.call = "DifferentialAnalysis") =>
           LoopMatches(args.roi2, 0) /\ LoopMatches(args.roi1, 1)
    /\ (pc = "idle" /\ args.call = "set_ROI_MNI152") =>
           LoopMatches(args.roi1, 0)

\* A completed loop in which one sample was kept, one was rejected for a
\* coordinate with an axis exactly 0 and one for an intensity equal to the
\* threshold.
C5_Witness ==
    /\ pc = "roi2"
    /\ Len(apidata.specimenInfo) > 0
    /\ LET K == Len(apidata.specimenInfo)
           rc(i) == RoundedCoords(args.roi1, apidata.apiinfo[i],
                                  apidata.specimenInfo[i])
       IN /\ \E i \in 1..K : Len(main_r[Len(main_r) - K + i].coords) > 0
          /\ \E i \in 1..K : \E s \in DOMAIN rc(i) : \E k \in 1..3 :
                rc(i)[s][k] = 0
          /\ \E i \in 1..K : \E s \in DOMAIN rc(i) :
                /\ rc(i)[s][1] > 0 /\ rc(i)[s][2] > 0 /\ rc(i)[s][3] > 0
                /\ GetData(args.roi1, rc(i)[s]) = mapthreshold

\* A loaded sample whose rounded coordinate in voi has all axes positive
\* and lies beyond the extents of the volume.
BeyondExtents(voi) ==
    \E i \in DOMAIN apidata.specimenInfo :
        LET rc == RoundedCoords(voi, apidata.apiinfo[i], apidata.specimenInfo[i])
        IN \E s \in DOMAIN rc :
              /\ rc[s][1] > 0 /\ rc[s][2] > 0 /\ rc[s][3] > 0
              /\ \E k \in 1..3 : rc[s][k] >= voi.shape[k]

\* C6: a sample with an all-positive coordinate beyond the extents of the
\* ROI volume is dropped like any other rejected sample: a call of
\* set_ROI_MNI152 with such a sample among the loaded ones completes.
C6_OutOfBoundsDropped ==
    /\ (/\ args.call = "set_ROI_MNI152"
        /\ args.index \in {0, 1}
        /\ BeyondExtents(args.roi1)) => pc = "idle" /\ LoopMatches(args.roi1, 0)
    /\ (/\ args.call = "DifferentialAnalysis"
        /\ ran = {"set_candidate_genes", "set_ROI_MNI152"}
        /\ args.roi1 # NoVoi /\ args.roi2 # NoVoi
        /\ BeyondExtents(args.roi1) \/ BeyondExtents(args.roi2)) => pc # "raised"

\* The region label and the specimen of every row of the combined
\* expression matrix, in the order of its rows.
RowOrigin(mr, field) ==
    Flatten([r \in DOMAIN mr |-> [i \in DOMAIN mr[r].zscores |-> mr[r][field]]])

\* C7: after initialize the rows are ordered region A first then region B,
\* and the Area label and the Specimen entry at position i are those of the
\* sample in row i of the combined expression matrix.
C7_RowsLabelled ==
    pc = "first" =>
        /\ anova_data.Area = RowOrigin(main_r, "name")
        /\ anova_data.Specimen = RowOrigin(main_r, "specimen")
        /\ \A a, b \in DOMAIN anova_data.Area :
                 (a < b /\ anova_data.Area[a] = "img2") =>
                     anova_data.Area[b] = "img2"

\* C8: DifferentialAnalysis with an empty gene list or a missing ROI stops
\* before set_candidate_genes, set_ROI_MNI152, cleanup or performAnova runs
\* and produces no result; set_ROI_MNI152 with an index other than 0 and 1
\* stops before its loop.
C8_StopsBeforeComputation ==
    /\ (/\ args.call = "DifferentialAnalysis"
        /\ \/ args.genelist = <<>>
           \/ args.roi1 = NoVoi
           \/ args.roi2 = NoVoi) => pc = "exited" /\ ran = {}
    /\ (/\ args.call = "set_ROI_MNI152"
        /\ args.index \notin {0, 1}) => pc = "exited" /\ ran = {}

\* DifferentialAnalysis has returned its result mapping.
Returned == pc = "idle" /\ args.call = "DifferentialAnalysis"

\* C9: the mapping DifferentialAnalysis returns has one key per distinct
\* gene symbol of the probe list, as many keys as the collapsed matrix has
\* columns, pairs the k-th key with the p-value of column k's observed
\* F-statistic, and every value lies in [0, 1].
C9_ResultMapping ==
    Returned =>
        LET dict == returned.dict
            collapsed == all_probe_data.combined_zscores
            keys == SortedSeqOfSet(Range(genesymbols))
        IN /\ ~returned.isNone
           /\ DOMAIN dict = Range(genesymbols)
           /\ Cardinality(DOMAIN dict) = Len(collapsed[1])
           /\ \A k \in DOMAIN collapsed[1] :
                 LET f == Fstat(Column(collapsed, k), AreaColumn(main_r))
                 IN dict[keys[k]] =
                      <<Cardinality({r \in 1..n_rep :
                                       RowReaches(r, f)}), n_rep>>
           /\ \A g \in DOMAIN dict :
                 dict[g][2] > 0 /\ 0 <= dict[g][1] /\ dict[g][1] <= dict[g][2]

\* A returned mapping of two genes with different p-values.
C9_Witness ==
    /\ Returned
    /\ ~returned.isNone
    /\ \E g, h \in DOMAIN returned.dict : returned.dict[g] # returned.dict[h]

\* The probe columns labelled x.
ColumnsOf(x) == {c \in DOMAIN genesymbols : genesymbols[c] = x}

RECURSIVE SumOver(_, _)
SumOver(row, cols) ==
    IF cols = {} THEN 0
    ELSE LET c == CHOOSE c \in cols : TRUE IN row[c] + SumOver(row, cols \ {c})

\* The sum of the values of row at cols after the lowest and the highest
\* are replaced by their neighbours (counts of 10 to 19), the plain sum for
\* fewer than 10.
ClippedSum(row, cols) ==
    LET n == Cardinality(cols)
        v == SortAsc([i \in 1..n |-> row[SortedSeqOfSet(cols)[i]]])
    IN IF n < 10 THEN SumOver(row, cols)
       ELSE SumOver(row, cols) - v[1] + v[2] - v[n] + v[n - 1]

\* C10: the collapsed matrix has the rows of the input matrix and one
\* column per distinct gene symbol, in ascending order of the symbols;
\* column k is the (winsorized) mean over exactly the probe columns
\* labelled with the k-th symbol; a single-probe gene keeps its raw values.
C10_Collapsed ==
    pc = "first" =>
        LET input == CombinedZscores(main_r)
            out == all_probe_data.combined_zscores
            U == all_probe_data.uniqueId
        IN /\ Len(out) = Len(input)
           /\ Len(U) = Cardinality(Range(genesymbols))
           /\ Range(U) = Range(genesymbols)
           /\ \A a, b \in DOMAIN U : a < b => U[a] < U[b]
           /\ \A r \in DOMAIN out :
                 /\ Len(out[r]) = Len(U)
                 /\ \A k \in DOMAIN U :
                       /\ Cardinality(ColumnsOf(U[k])) < 20
                       /\ out[r][k] * Cardinality(ColumnsOf(U[k])) =
                            ZUnit * ClippedSum(input[r], ColumnsOf(U[k]))
                       /\ \A c \in DOMAIN genesymbols :
                             ColumnsOf(U[k]) = {c} => out[r][k] = ZUnit * input[r][c]

\* A collapse whose symbols arrive out of order, with a two-probe gene
\* whose probes differ and a single-probe gene.
C10_Witness ==
    /\ pc = "first"
    /\ genesymbols = <<2, 1, 1>>
    /\ all_probe_data.uniqueId = <<1, 2>>
    /\ \E r \in DOMAIN all_probe_data.combined_zscores :
          LET input == CombinedZscores(main_r)[r]
          IN /\ input[2] # input[3]
             /\ input[1] # input[2] + input[3]

\* C11: when getmeanzscores has run, genesymbols has one entry per probe
\* column of every z-score matrix it collapsed, and entry i is the gene
\* symbol of the probe stored in column i.
C11_SymbolsMatchColumns ==
    pc = "first" =>
        \A e \in DOMAIN main_r :
            main_r[e].zscores # <<>> =>
                /\ Len(genesymbols) = Len(main_r[e].probes)
                /\ \A i \in DOMAIN genesymbols :
                      i \in DOMAIN main_r[e].probes =>
                          genesymbols[i] = GeneOfProbe(main_r[e].probes[i])

\* C12: after initialize, a row whose specimen name is in the covariate
\* table holds that specimen's own age and race, and a row whose specimen
\* name is not in the table holds the age and race of the table's first
\* entry, as the same kind of scalar value a found name yields.
C12_CovariateLookup ==
    pc = "first" =>
        \A i \in DOMAIN anova_data.Specimen :
            LET nm == anova_data.Specimen[i]
                found == {k \in DOMAIN specimenFactors.name :
                            specimenFactors.name[k] = nm}
            IN /\ ~anova_data.Age[i].list
               /\ ~anova_data.Race[i].list
               /\ IF found # {}
                  THEN \E k \in found :
                          /\ anova_data.Age[i].v = specimenFactors.age[k]
                          /\ anova_data.Race[i].v = specimenFactors.race[k]
                  ELSE /\ anova_data.Age[i].v = specimenFactors.age[1]
                       /\ anova_data.Race[i].v = specimenFactors.race[1]

\* The phases of performAnova, in the order of its calls; 0 outside it.
Phase(p) ==
    CASE p = "anova" -> 1
      [] p = "first" -> 2
      [] p = "fwe" -> 3
      [] p = "perm" -> 3
      [] p = "accumulate" -> 4
      [] OTHER -> 0

\* C13: performAnova goes through initialize, the reference fit, the
\* permutation test and the correction in that order without a step back;
\* the p-values and the result mapping change only once all n_rep rows of
\* the matrix are written; DifferentialAnalysis returns only what that
\* correction has just computed, and a call that raised, in a model fit or
\* elsewhere, returns nothing and computes nothing more.
C13_PhasesInOrder ==
    [][/\ (Phase(pc) > 0 /\ Phase(pc') > 0) =>
             \/ Phase(pc') = Phase(pc) + 1
             \/ Phase(pc') = Phase(pc) /\ Phase(pc) = 3
       /\ (Phase(pc) = 0 /\ Phase(pc') > 0) => Phase(pc') = 1
       /\ (Phase(pc) > 0 /\ Phase(pc) < 4) =>
             /\ result' = result
             /\ pc' \notin {"return", "idle"}
       /\ (Phase(pc) = 0 /\ pc # "return") => result' = result
       /\ pc = "accumulate" =>
             /\ rep = n_rep
             /\ j = 0
             /\ Len(F_mat_perm_anovan) = n_rep
             /\ ~result'.isNone
             /\ Phase(pc') = 0
       /\ pc' = "return" => pc = "accumulate"
       /\ returned' # returned => pc = "return"
       /\ pc = "return" => returned' = result /\ ~result.isNone
       /\ pc' = "raised" => returned' = returned /\ result' = result
       /\ pc = "raised" => pc' = "raised"]_vars

\* DifferentialAnalysis has raised in the reference fit: nothing was
\* returned.
C13_Witness ==
    /\ pc = "raised"
    /\ args.call = "DifferentialAnalysis"
    /\ "performAnova" \in ran
    /\ anova_data.Zscores # <<>>
    /\ returned.isNone

====
